---- MODULE Spec2Model ----
(***************************************************************************)
(* Model of the Gen_AI_Learn chatbot services:                             *)
(*   - langchain/agent.py: AgentExecutor.invoke (the agent control loop),  *)
(*     generate_response (the conversation service)                        *)
(*   - langchain/main.py: the /generate route                              *)
(*   - langchain/config/mongodb.py: the memoized store connection          *)
(*   - streamingChatbot/backend/agent/agent.py: the /chat SSE generator    *)
(*                                                                         *)
(* Text is modelled as a sequence of tokens (strings); an f-string is the  *)
(* concatenation of its pieces, so "contains" is token membership.         *)
(***************************************************************************)
EXTENDS Integers, Sequences, FiniteSets, TLC

\* ------------------------------------------------------------------ bounds
\* What the assistant turns of one run may carry beyond the plain turn (one
\* well-formed request of a registered tool): each further request of a turn
\* and each request that is not plain (unregistered tool, arguments violating
\* the schema) counts one.
MaxExtras == 2
\* Number of conversation documents stored before the /generate request.
MaxStored == 1
\* Number of chunks the completion stream of one /chat request delivers.
MaxChunks == 3
\* Number of conversation documents the memory operations may store.
MaxSaved == 2
\* The values datetime.now() takes are 1..MaxTime.
MaxTime == 2
\* Number of requests that save preferences concurrently.
MaxRequests == 2
\* Number of preference upserts of one behaviour.
MaxUpserts == 3
\* Number of characters of the argument of calculate.
MaxExprLen == 3
\* Number of conversation documents stored before a /generate request whose
\* context is looked at.
MaxHistory == 4
\* The JSON texts of the endpoint's responses have MaxChars - BodySpread to
\* MaxChars + BodySpread characters.
BodySpread == 60
\* Number of threads that call get_mongo_client.
MaxCallers == 2
\* Number of get_mongo_client calls of one behaviour.
MaxCalls == 3

\* ------------------------------------------------------- program constants
\* agent.py:79  self.max_iterations = 10
max_iterations == 10
\* tools.py:127-128  [:100]
ExcerptLen == 100
\* agent.py:152  db_get_history(user_id, limit=3)
ContextLimit == 3
\* tools.py:172  result[:1000]
MaxChars == 1000

\* ------------------------------------------------------------------- state
VARIABLES
    pc,          \* position of AgentExecutor.invoke
    messages,    \* invoke's local list of messages
    iteration,   \* invoke's local counter
    response,    \* the assistant turn returned by the last llm call
    tc_idx,      \* position of the for loop over response.tool_calls
    output,      \* what invoke returned ({"output": ...}), or the exception it raised
    llm_calls,   \* history: number of llm_with_tools.invoke calls made
    tools_run,   \* history: the tool invocations made, in order
    extras_left, \* environment: what is left of MaxExtras
    store_up,      \* environment: the MongoDB server is reachable
    mongo_client,  \* mongodb.py:17 _mongo_client
    db,            \* mongodb.py:18 _db
    conversations, \* the documents of the conversations collection, in insertion order
    g_pc,          \* position of the /generate request
    req,           \* the /generate request: prompt and user_id
    http,          \* the body /generate answered with
    seen_up,       \* history: the store was reachable at some point of the request
    save_attempts, \* history: number of times generate_response entered its save block
    stored_before, \* history: the collection as it was when the request arrived
    c_pc,          \* position of the /chat generator chatbot()
    emitted,       \* the lines chatbot() has yielded, in order
    chunks_read,   \* number of chunks the completion stream has delivered
    connected,     \* environment: the /chat client is still connected
    detected_at,   \* history: Len(emitted) when is_disconnected() answered True, or -1
    clock,         \* environment: what datetime.now() returns
    store_op,      \* the last memory operation and what it returned
    preferences,   \* the documents of the preferences collection
    pref_index,    \* the preferences collection has its unique index on user_id
    upsert,        \* per request: position and arguments of its update_one
    upserts_left,  \* environment: what is left of MaxUpserts
    last_saved,    \* history: per user, the payload of the last upsert that returned "Saved"
    calc,          \* a call of calculate: its argument and what it returned
    api,           \* a call of api_get: the endpoint's response and what it returned
    caller,        \* per thread: position and result of its get_mongo_client call
    calls_left,    \* environment: what is left of MaxCalls
    constructed,   \* history: number of MongoClient(...) constructions
    verified,      \* history: the handles whose server_info() returned
    was_down       \* history: the store was unreachable at some point

loopVars == <<pc, messages, iteration, response, tc_idx, output,
              llm_calls, tools_run, extras_left>>

genVars == <<store_up, mongo_client, db, conversations, g_pc, req, http,
             seen_up, save_attempts, stored_before>>

chatVars == <<c_pc, emitted, chunks_read, connected, detected_at>>

memVars == <<clock, store_op>>

prefVars == <<preferences, pref_index, upsert, upserts_left, last_saved>>

toolVars == <<calc, api>>

connVars == <<caller, calls_left, constructed, verified, was_down>>

vars == <<loopVars, genVars, chatVars, memVars, prefVars, toolVars, connVars>>

\* what the actions of each part leave alone
outsideLoop == <<genVars, chatVars, memVars, prefVars, toolVars, connVars>>
outsideGenerate == <<chatVars, clock, prefVars, toolVars, connVars>>
outsideChat == <<loopVars, genVars, memVars, prefVars, toolVars, connVars>>
outsideMemory == <<loopVars, chatVars, g_pc, req, http, seen_up, save_attempts,
                   stored_before, prefVars, toolVars, connVars>>
outsidePreferences == <<loopVars, chatVars, memVars, conversations, g_pc, req,
                        http, seen_up, save_attempts, stored_before, toolVars,
                        connVars>>
outsideTools == <<loopVars, genVars, chatVars, memVars, prefVars, connVars>>
outsideConnection == <<loopVars, chatVars, memVars, prefVars, toolVars, db,
                       conversations, g_pc, req, http, seen_up, save_attempts,
                       stored_before>>

\* -------------------------------------------------------------- vocabulary
\* tools.py:237-251 get_all_tools / agent.py:41 tool_map
tool_map == {"web_search", "weather_search", "db_init", "db_save_conversation",
             "db_get_history", "db_save_preference", "api_get",
             "currency_convert", "get_joke", "calculate", "get_time"}

\* agent.py:47-69 the system prompt, one token
system_prompt == <<"You are a helpful AI assistant with access to tools.">>

\* agent.py:121
MaxIterationsMessage == <<"Maximum iterations reached. Please try a simpler question.">>

\* Python's None, where a text may stand
None == <<>>
\* None, where a handle may stand (mongodb.py:17-18)
Unset == "None"
NoRequest == [prompt |-> <<>>, user_id |-> <<>>]
NoHttp == [kind |-> "none"]

NoId == <<>>
NoResponse == [role |-> "none", content |-> <<>>, tool_calls |-> <<>>, tool_call_id |-> NoId]

\* langchain_core.messages constructors as used in agent.py:83,106,111
HumanMessage(c) == [role |-> "human", content |-> c, tool_calls |-> <<>>, tool_call_id |-> NoId]
AIMessage(c, calls) == [role |-> "ai", content |-> c, tool_calls |-> calls, tool_call_id |-> NoId]
ToolMessage(c, id) == [role |-> "tool", content |-> c, tool_calls |-> <<>>, tool_call_id |-> id]

\* --------------------------------------------------------- the environment
\* Names the model may request: a registered tool and one that is not.
RequestedNames == {"calculate", "bogus_tool"}
\* Arguments as the model emits them: matching the tool's schema or not.
ArgKinds == {"valid", "invalid"}
\* Contents of a tool-free assistant turn.
Answers == {<<"answer A">>, <<"answer B">>}
\* user_id values of /generate requests (main.py:39 names the default)
Users == {"default", "u1"}
\* User inputs handed to invoke.
Inputs == {<<"hello">>, <<"what is 2+2">>}

\* One request: valid/invalid arguments only matter for a registered tool.
Requests == {r \in [name : RequestedNames, args : ArgKinds] :
                r.name \notin tool_map => r.args = "valid"}

PlainRequest == [name |-> "calculate", args |-> "valid"]

\* All request lists of length 1..MaxExtras+1
RequestLists == UNION {[1..n -> Requests] : n \in 1..(MaxExtras + 1)}

\* What a request list takes from the budget of extras
Extras(reqs) ==
    (Len(reqs) - 1) + Cardinality({k \in 1..Len(reqs) : reqs[k] # PlainRequest})

\* call_id assigned by the Completion Client: unique per run
CallId(it, k) == <<it, k>>

WithIds(reqs, it) ==
    [k \in 1..Len(reqs) |-> [name |-> reqs[k].name, args |-> reqs[k].args, id |-> CallId(it, k)]]

\* str(e) of the exception a tool raises on arguments violating its schema
ValidationError == <<"validation error">>
\* str(tool_result) of a tool that ran
ToolResult(name) == <<"result of ", name>>

\* ---------------------------------------------------- AgentExecutor.invoke
\* agent.py:82-85
InvokeStart(user_input) ==
    /\ pc = "idle"
    /\ messages' = <<HumanMessage(system_prompt \o <<"\n\nUser: ">> \o user_input)>>
    /\ iteration' = 0
    /\ pc' = "loop"
    /\ llm_calls' = 0
    /\ tools_run' = <<>>
    /\ UNCHANGED <<response, tc_idx, output, extras_left>>

\* agent.py:86 the while test, off by one
LoopTestInclusive == iteration <= max_iterations

\* agent.py:86 the while test
LoopTest == iteration < max_iterations

\* agent.py:118, the content dropped
FinalOutputFixed(turn) == [kind |-> "output", value |-> <<"Sorry, I couldn't generate a response.">>]

\* agent.py:118 return {"output": response.content}
FinalOutput(turn) == [kind |-> "output", value |-> turn.content]

\* agent.py:86-94, 116-118: one pass of the while test, the llm call and
\* the branch on response.tool_calls, the llm answering `turn`
LLMReturns(turn) ==
    /\ pc = "loop"
    /\ LoopTest
    /\ iteration' = iteration + 1
    /\ llm_calls' = llm_calls + 1
    /\ response' = turn
    /\ messages' = Append(messages, turn)
    /\ IF turn.tool_calls # <<>>
         THEN /\ pc' = "tools"
              /\ tc_idx' = 1
              /\ output' = output
         ELSE /\ pc' = "returned"
              /\ tc_idx' = tc_idx
              /\ output' = FinalOutput(turn)
    /\ UNCHANGED tools_run
    /\ UNCHANGED outsideLoop

\* the llm answers with a tool-free turn
LLMAnswers ==
    \E c \in Answers :
        /\ LLMReturns(AIMessage(c, <<>>))
        /\ UNCHANGED extras_left

\* the llm answers with a turn carrying tool requests
LLMRequestsTools ==
    \E reqs \in RequestLists :
        /\ Extras(reqs) <= extras_left
        /\ LLMReturns(AIMessage(<<>>, WithIds(reqs, iteration + 1)))
        /\ extras_left' = extras_left - Extras(reqs)

\* agent.py:90: the llm call raises; nothing in invoke catches it
LLMRaises ==
    /\ pc = "loop"
    /\ LoopTest
    /\ iteration' = iteration + 1
    /\ llm_calls' = llm_calls + 1
    /\ pc' = "raised"
    /\ output' = [kind |-> "exception", value |-> <<"completion service error">>]
    /\ UNCHANGED <<messages, response, tc_idx, tools_run, extras_left>>
    /\ UNCHANGED outsideLoop

\* agent.py:110-114, the except clause appending nothing
ToolStepMessagesSilent(tool_call) ==
    IF tool_call.name \in tool_map /\ tool_call.args = "valid"
      THEN <<ToolMessage(ToolResult(tool_call.name), tool_call.id)>>
      ELSE <<>>

\* agent.py:96-114: what one pass of the for loop appends to messages
ToolStepMessages(tool_call) ==
    IF tool_call.name \in tool_map
      THEN IF tool_call.args = "valid"
             THEN <<ToolMessage(ToolResult(tool_call.name), tool_call.id)>>
             ELSE <<ToolMessage(<<"Error executing ", tool_call.name, ": ">> \o ValidationError,
                                tool_call.id)>>
      ELSE <<>>

\* agent.py:96, the requests taken last first
CurrentToolCallReversed == response.tool_calls[Len(response.tool_calls) + 1 - tc_idx]

\* agent.py:96 the request the for loop is at
CurrentToolCall == response.tool_calls[tc_idx]

\* agent.py:96-115: one pass of the for loop over response.tool_calls, at a
\* request for a tool that leaves the conversation store alone
ToolStep ==
    /\ pc = "tools"
    /\ tc_idx <= Len(response.tool_calls)
    /\ CurrentToolCall.name # "db_save_conversation"
    /\ LET tool_call == CurrentToolCall IN
         /\ messages' = messages \o ToolStepMessages(tool_call)
         /\ tools_run' = IF tool_call.name \in tool_map
                           THEN Append(tools_run, tool_call.id)
                           ELSE tools_run
    /\ tc_idx' = tc_idx + 1
    /\ pc' = IF tc_idx = Len(response.tool_calls) THEN "loop" ELSE "tools"
    /\ UNCHANGED <<iteration, response, output, llm_calls, extras_left>>
    /\ UNCHANGED outsideLoop

\* agent.py:121, raising instead of returning
MaxIterationsOutputRaising == [kind |-> "exception", value |-> MaxIterationsMessage]

\* agent.py:121 return {"output": "Maximum iterations reached. ..."}
MaxIterationsOutput == [kind |-> "output", value |-> MaxIterationsMessage]

\* agent.py:86, 120-121: the while test fails
MaxIterationsReached ==
    /\ pc = "loop"
    /\ ~LoopTest
    /\ pc' = "returned"
    /\ output' = MaxIterationsOutput
    /\ UNCHANGED <<messages, iteration, response, tc_idx, llm_calls, tools_run, extras_left>>
    /\ UNCHANGED outsideLoop


\* ============================================== claims on the control loop
InvokeEnded == pc \in {"returned", "raised"}

\* the positions of the assistant turns in messages
AiTurns == {i \in 1..Len(messages) : messages[i].role = "ai"}

\* the messages that follow assistant turn i, up to the next assistant turn
BlockEnd(i) ==
    IF \E j \in AiTurns : j > i
      THEN (CHOOSE j \in AiTurns : j > i /\ \A l \in AiTurns : l > i => j <= l) - 1
      ELSE Len(messages)
Block(i) == SubSeq(messages, i + 1, BlockEnd(i))

\* the requests of assistant turn i the for loop has gone through
Handled(i) ==
    IF pc = "tools" /\ \A j \in AiTurns : j <= i
      THEN SubSeq(messages[i].tool_calls, 1, tc_idx - 1)
      ELSE messages[i].tool_calls

IsRegistered(tool_call) == tool_call.name \in tool_map
Contains(text, token) == \E k \in 1..Len(text) : text[k] = token

\* C1: whatever the completion client answers and whatever the tools do,
\* invoke ends (returns or raises) and makes at most max_iterations
\* completion calls.
C1_Terminates ==
    /\ [](llm_calls <= max_iterations)
    /\ <>InvokeEnded

C1_Witness ==
    /\ pc = "returned"
    /\ llm_calls = max_iterations
    /\ \E i \in 1..Len(messages) :
          messages[i].role = "tool" /\ Contains(messages[i].content, "Error executing ")
    /\ \E i \in AiTurns : \E k \in 1..Len(messages[i].tool_calls) :
          ~IsRegistered(messages[i].tool_calls[k])

\* C2: a request naming an unregistered tool makes the for loop append a
\* tool-result turn with the request's call_id and an "unknown tool" error,
\* and the loop goes on.
C2_UnknownToolReported ==
    [][(pc = "tools" /\ ~IsRegistered(CurrentToolCall))
         => /\ Len(messages') = Len(messages) + 1
            /\ messages'[Len(messages')].role = "tool"
            /\ messages'[Len(messages')].tool_call_id = CurrentToolCall.id
            /\ pc' \in {"tools", "loop"}]_vars

\* C7: when a registered tool raises, the for loop appends one tool-result
\* turn with the request's call_id whose content holds the tool's name and
\* the failure's text; invoke does not raise, the for loop moves to the next
\* request, and after the last one the while loop is re-entered.
C7_ToolFailureContained ==
    [][(pc = "tools" /\ IsRegistered(CurrentToolCall) /\ CurrentToolCall.args = "invalid")
         => /\ Len(messages') = Len(messages) + 1
            /\ SubSeq(messages', 1, Len(messages)) = messages
            /\ LET m == messages'[Len(messages')] IN
                 /\ m.role = "tool"
                 /\ m.tool_call_id = CurrentToolCall.id
                 /\ Contains(m.content, CurrentToolCall.name)
                 /\ \A k \in 1..Len(ValidationError) : Contains(m.content, ValidationError[k])
            /\ tc_idx' = tc_idx + 1
            /\ pc' = (IF tc_idx < Len(response.tool_calls) THEN "tools" ELSE "loop")
            /\ iteration' = iteration]_vars

\* a raising request, followed in its turn by a request that was executed,
\* and a later assistant turn
C7_Witness ==
    \E i \in AiTurns :
        /\ Len(messages[i].tool_calls) >= 2
        /\ messages[i].tool_calls[1].args = "invalid"
        /\ Len(Block(i)) = Len(messages[i].tool_calls)
        /\ Contains(Block(i)[1].content, "Error executing ")
        /\ Block(i)[2].content = ToolResult(messages[i].tool_calls[2].name)
        /\ \E j \in AiTurns : j > i

\* C8: for an assistant turn with two or more requests, the messages that
\* follow it up to the next completion call are tool-result turns, in the
\* order of the requests they answer (those of registered tools); while the
\* for loop runs they answer the requests gone through so far, and when the
\* next completion call is made all of them are there.
C8_ResultsInRequestOrder ==
    \A i \in AiTurns :
        Len(messages[i].tool_calls) >= 2 =>
            LET answered == SelectSeq(Handled(i), IsRegistered) IN
            /\ Len(Block(i)) = Len(answered)
            /\ \A k \in 1..Len(answered) :
                  /\ Block(i)[k].role = "tool"
                  /\ Block(i)[k].tool_call_id = answered[k].id

\* a turn with three requests, all answered, and a completion call after it
C8_Witness ==
    \E i \in AiTurns :
        /\ Len(messages[i].tool_calls) >= 3
        /\ Len(Block(i)) = Len(messages[i].tool_calls)
        /\ \E j \in AiTurns : j > i

\* C9: when the first assistant turn carries no tool request, invoke has
\* made one completion call, has run no tool, and has returned that turn's
\* content.
C9_DirectAnswer ==
    (Len(messages) >= 2 /\ messages[2].role = "ai" /\ messages[2].tool_calls = <<>>)
        => /\ pc = "returned"
           /\ llm_calls = 1
           /\ tools_run = <<>>
           /\ Len(messages) = 2
           /\ output = [kind |-> "output", value |-> messages[2].content]

C9_Witness ==
    /\ pc = "returned"
    /\ Len(messages) = 2
    /\ messages[2].tool_calls = <<>>
    /\ output.value = <<"answer B">>

\* C10: when max_iterations assistant turns all carry tool requests, invoke
\* has made exactly max_iterations completion calls, does not raise, makes
\* no further call, and what it returns is the fixed message.
C10_Fallback ==
    (Cardinality(AiTurns) = max_iterations
        /\ \A i \in AiTurns : messages[i].tool_calls # <<>>)
        => /\ llm_calls = max_iterations
           /\ pc \in {"tools", "loop", "returned"}
           /\ pc = "loop" => (ENABLED MaxIterationsReached /\ ~ENABLED LLMAnswers
                               /\ ~ENABLED LLMRequestsTools /\ ~ENABLED LLMRaises)
           /\ pc = "returned" => output = [kind |-> "output", value |-> MaxIterationsMessage]

C10_Witness ==
    /\ pc = "returned"
    /\ Cardinality(AiTurns) = max_iterations
    /\ \A i \in AiTurns : messages[i].tool_calls # <<>>
    /\ output.value = MaxIterationsMessage

\* ------------------------------------------------------- config/mongodb.py
\* mongodb.py:21-40 get_mongo_client: the handle is assigned to the global
\* before server_info() tests the connection. Result: the global afterwards
\* and whether ConnectionError was raised.
get_mongo_client(mc, up) ==
    IF mc = Unset
      THEN [mongo_client |-> "MongoClient", raised |-> ~up]
      ELSE [mongo_client |-> mc, raised |-> FALSE]

\* mongodb.py:43-49 get_database
get_database(mc, d, up) ==
    IF d = Unset
      THEN LET c == get_mongo_client(mc, up) IN
           [mongo_client |-> c.mongo_client,
            db |-> IF c.raised THEN d ELSE "chatbot_db",
            raised |-> c.raised]
      ELSE [mongo_client |-> mc, db |-> d, raised |-> FALSE]

\* mongodb.py:52-55 get_conversations_collection
get_conversations_collection(mc, d, up) == get_database(mc, d, up)

\* str(e) of the ConnectionError of mongodb.py:36-39
ConnectionErrorText == <<"Failed to connect to MongoDB at ", "MONGODB_URI", ": ", "timed out">>
\* str(e) of the driver's exception when an operation cannot reach the server
DriverErrorText == <<"server selection timed out">>

\* ---------------------------------------------------------- tools/tools.py
\* tools.py:66-84 db_init, run on the globals: the globals afterwards.
\* has_default: the connection string names a default database, so that
\* client.get_database() of line 72 returns instead of raising.
db_init(mc, d, up, has_default) ==
    LET c == get_mongo_client(mc, up) IN
    IF c.raised \/ ~has_default
      THEN [mongo_client |-> c.mongo_client, db |-> d]
      ELSE LET g == get_conversations_collection(c.mongo_client, d, up) IN
           [mongo_client |-> g.mongo_client, db |-> g.db]

\* tools.py:120-122 find({"user_id": user_id}).sort("timestamp", -1): every
\* order the server may return the documents of `user_id` in. Documents with
\* equal timestamps come in any order.
NewestFirst(docs, user_id) ==
    LET found == {k \in 1..Len(docs) : docs[k].user_id = user_id}
        n == Cardinality(found)
    IN {[i \in 1..n |-> docs[order[i]]] :
          order \in {o \in [1..n -> found] :
                       /\ \A i, j \in 1..n : i # j => o[i] # o[j]
                       /\ \A i, j \in 1..n :
                            i < j => docs[o[i]].timestamp >= docs[o[j]].timestamp}}

\* tools.py:127-128 text[:100]; the length of a text is its number of tokens
Excerpt(text) == SubSeq(text, 1, IF Len(text) < ExcerptLen THEN Len(text) ELSE ExcerptLen)

\* tools.py:115-137 db_get_history: the list that is serialized, or the
\* "No history" texts. `found` is what the sorted find returned.
db_get_history(found, limit, g, up) ==
    IF g.raised
      THEN [kind |-> "text", text |-> <<"No history available: ">> \o ConnectionErrorText]
    ELSE IF ~up
      THEN [kind |-> "text", text |-> <<"No history available: ">> \o DriverErrorText]
    ELSE LET cut == SubSeq(found, 1, IF Len(found) < limit THEN Len(found) ELSE limit)
             history == [k \in 1..Len(cut) |->
                            [msg |-> Excerpt(cut[k].message),
                             resp |-> Excerpt(cut[k].response),
                             time |-> cut[k].timestamp]]
         IN IF history = <<>>
              THEN [kind |-> "text", text |-> <<"No history">>]
              ELSE [kind |-> "json", list |-> history]

\* ---------------------------------------------- agent.py generate_response
\* Tokens of the model whose lower-cased text contains "error"
ErrorTokens == {"Error: ", "Error executing ", "validation error",
                "completion service error", "I got an error"}

TextHasError(text) == \E k \in 1..Len(text) : text[k] \in ErrorTokens

\* agent.py:153 "error" in history_str.lower(), on the serialized list
HistoryHasError(list) ==
    \E k \in 1..Len(list) : TextHasError(list[k].msg) \/ TextHasError(list[k].resp)

\* agent.py:156-159 the context text, oldest first
RECURSIVE RenderContext(_)
RenderContext(list) ==
    IF list = <<>> THEN <<>>
    ELSE RenderContext(Tail(list))
         \o <<"User: ">> \o Head(list).msg \o <<"\n">>
         \o <<"Assistant: ">> \o Head(list).resp \o <<"\n">>

\* agent.py:147-161 the context, given what db_get_history returned
Context(h) ==
    IF h.kind = "json" /\ ~HistoryHasError(h.list)
      THEN <<"\n\nPrevious conversation context:\n">> \o RenderContext(h.list)
      ELSE <<>>

\* agent.py:163-166
EnhancedPrompt(context, prompt) ==
    IF context # <<>>
      THEN context \o <<"\n\nCurrent question: ">> \o prompt
      ELSE prompt

\* ------------------------------------------------- the control loop alone
\* no invoke is running
InitExecutor ==
    /\ pc = "idle"
    /\ messages = <<>>
    /\ iteration = 0
    /\ response = NoResponse
    /\ tc_idx = 0
    /\ output = [kind |-> "none", value |-> <<>>]
    /\ llm_calls = 0
    /\ tools_run = <<>>

\* mongodb.py:16-18 the module's globals; an empty collection; no request
InitStore ==
    /\ mongo_client = Unset
    /\ db = Unset
    /\ conversations = <<>>
    /\ g_pc = "idle"
    /\ req = NoRequest
    /\ http = NoHttp
    /\ seen_up = FALSE
    /\ save_attempts = 0
    /\ stored_before = <<>>

\* no memory operation was made
NoStoreOp == [op |-> "none"]

NoCall == [pc |-> "idle"]

\* no thread is in get_mongo_client
NoCaller == [pc |-> "idle", got |-> Unset, down |-> FALSE]

InitNoConnectionCalls ==
    /\ caller = [t \in 1..MaxCallers |-> NoCaller]
    /\ calls_left = 0
    /\ constructed = 0
    /\ verified = {}
    /\ was_down = FALSE

InitNoMemoryOps ==
    /\ store_op = NoStoreOp
    /\ calc = NoCall
    /\ api = NoCall
    /\ InitNoConnectionCalls

\* an empty preferences collection without index; no upsert under way
NoUpsert == [pc |-> "idle", user_id |-> <<>>, preferences |-> <<>>, matched |-> 0]

InitNoPreferences ==
    /\ preferences = <<>>
    /\ pref_index = FALSE
    /\ upsert = [t \in 1..MaxRequests |-> NoUpsert]
    /\ upserts_left = 0
    /\ last_saved = [u \in Users |-> None]

\* no /chat stream
InitNoChat ==
    /\ c_pc = "idle"
    /\ emitted = <<>>
    /\ chunks_read = 0
    /\ connected = TRUE
    /\ detected_at = -1

InitLoop ==
    /\ InitExecutor
    /\ InitStore
    /\ InitNoChat
    /\ InitNoMemoryOps
    /\ InitNoPreferences
    /\ clock = 1
    /\ store_up = TRUE
    /\ extras_left = MaxExtras

Invoke == \E i \in Inputs : InvokeStart(i) /\ UNCHANGED outsideLoop

NextLoop ==
    \/ Invoke
    \/ LLMAnswers
    \/ LLMRequestsTools
    \/ LLMRaises
    \/ ToolStep
    \/ MaxIterationsReached

SpecLoop == InitLoop /\ [][NextLoop]_vars

\* the thread running invoke is always scheduled
FairLoop == SpecLoop /\ WF_vars(NextLoop)

\* ------------------------------- agent.py generate_response, main.py route
\* agent.py:195-206, a handle that was obtained taken for a successful insert
SaveStatusTrusting(g, up) ==
    IF g.raised
      THEN [saved |-> FALSE, error |-> <<"MongoDB connection error: ">> \o ConnectionErrorText]
      ELSE [saved |-> TRUE, error |-> None]

\* agent.py:180-206 the save: the outcome of get_conversations_collection
\* is g; the save status, and whether a document is inserted
SaveStatus(g, up) ==
    IF g.raised
      THEN [saved |-> FALSE, error |-> <<"MongoDB connection error: ">> \o ConnectionErrorText]
    ELSE IF ~up
      THEN [saved |-> FALSE, error |-> <<"Database error: ">> \o DriverErrorText]
    ELSE [saved |-> TRUE, error |-> None]

\* agent.py:188-194 and tools.py:92-98 conversation_doc; `now` is what
\* datetime.now() returned
ConversationDoc(user_id, prompt, answer, now) ==
    [user_id |-> user_id, message |-> prompt, response |-> answer,
     timestamp |-> now]

\* agent.py:208-212, a failed save returned like the failures of line 215
GenerateResultFailing(answer, save_status) ==
    IF save_status.saved
      THEN [kind |-> "dict", content |-> answer, save_status |-> save_status]
      ELSE [kind |-> "str", text |-> <<"Error: ">> \o save_status.error]

\* agent.py:208-212 what generate_response returns after the save block
GenerateResult(answer, save_status) ==
    [kind |-> "dict", content |-> answer, save_status |-> save_status]

\* main.py:53-69 the body of /generate built from generate_response's result
GenerateBody(result, user_id) ==
    LET is_dict == result.kind = "dict"
        response_text == IF is_dict THEN result.content ELSE result.text
        save_status == IF is_dict THEN result.save_status
                       ELSE [saved |-> FALSE, error |-> <<"Status not available">>]
    IN [kind |-> "json",
        response |-> response_text,
        user_id |-> user_id,
        status |-> "success",
        saved_to_memory |-> save_status.saved,
        save_error |-> save_status.error,
        message |-> IF save_status.saved
                      THEN <<"Conversation saved to MongoDB">>
                      ELSE <<"Save failed: ">> \o save_status.error]

\* main.py:50-51 and agent.py:138-175: the request arrives; generate_response
\* runs db_init and db_get_history, builds the prompt and enters invoke.
\* db_init and db_get_history are tool objects called like functions:
\* whether such a call runs the function's body (init_runs, history_runs) or
\* raises, swallowed by the bare excepts of lines 143 and 160, depends on
\* the installed langchain version. has_default: see db_init. store_op
\* records whether the history query was made.
GenerateBegin ==
    \E prompt \in Inputs, user_id \in Users,
       init_runs \in BOOLEAN, has_default \in BOOLEAN, history_runs \in BOOLEAN :
      \E found \in NewestFirst(conversations, user_id) :
        /\ g_pc = "idle"
        /\ pc = "idle"
        /\ LET s1 == IF init_runs
                       THEN db_init(mongo_client, db, store_up, has_default)
                       ELSE [mongo_client |-> mongo_client, db |-> db]
               g == get_conversations_collection(s1.mongo_client, s1.db, store_up)
               h == IF history_runs
                      THEN db_get_history(found, ContextLimit, g, store_up)
                      ELSE [kind |-> "raised"]
               context == Context(h)
           IN /\ mongo_client' = IF history_runs THEN g.mongo_client ELSE s1.mongo_client
              /\ db' = IF history_runs THEN g.db ELSE s1.db
              /\ InvokeStart(EnhancedPrompt(context, prompt))
        /\ req' = [prompt |-> prompt, user_id |-> user_id]
        /\ g_pc' = "invoke"
        /\ http' = NoHttp
        /\ seen_up' = store_up
        /\ store_op' = [op |-> "db_get_history", user_id |-> user_id,
                        limit |-> ContextLimit, ran |-> history_runs]
        /\ stored_before' = conversations
        /\ UNCHANGED <<store_up, conversations, save_attempts>>
        /\ UNCHANGED outsideGenerate

\* agent.py:214-215 and main.py:53-69: invoke raised; generate_response
\* returns the text "Error: ..." and the route answers
GenerateFails ==
    /\ g_pc = "invoke"
    /\ pc = "raised"
    /\ http' = GenerateBody([kind |-> "str", text |-> <<"Error: ">> \o output.value],
                            req.user_id)
    /\ g_pc' = "done"
    /\ UNCHANGED loopVars
    /\ UNCHANGED <<store_up, mongo_client, db, conversations, req, seen_up, store_op,
                   save_attempts, stored_before>>
    /\ UNCHANGED outsideGenerate

\* agent.py:177-213, the document of line 190 taking the input handed to
\* invoke, enlarged with the context, in place of prompt
GenerateReturnsEnhanced ==
    /\ g_pc = "invoke"
    /\ pc = "returned"
    /\ LET answer == output.value
           g == get_conversations_collection(mongo_client, db, store_up)
           save_status == SaveStatus(g, store_up)
       IN /\ mongo_client' = g.mongo_client
          /\ db' = g.db
          /\ conversations' =
               IF save_status.saved
                 THEN Append(conversations,
                             ConversationDoc(req.user_id,
                                 SubSeq(messages[1].content, Len(system_prompt) + 2,
                                        Len(messages[1].content)),
                                 answer, clock))
                 ELSE conversations
          /\ http' = GenerateBody(GenerateResult(answer, save_status), req.user_id)
    /\ save_attempts' = save_attempts + 1
    /\ g_pc' = "done"
    /\ UNCHANGED loopVars
    /\ UNCHANGED <<store_up, req, seen_up, store_op, stored_before>>
    /\ UNCHANGED outsideGenerate

\* agent.py:177-213 and main.py:53-69: invoke returned; the exchange is
\* saved and the route answers
GenerateReturns ==
    /\ g_pc = "invoke"
    /\ pc = "returned"
    /\ LET answer == output.value
           g == get_conversations_collection(mongo_client, db, store_up)
           save_status == SaveStatus(g, store_up)
       IN /\ mongo_client' = g.mongo_client
          /\ db' = g.db
          /\ conversations' =
               IF save_status.saved
                 THEN Append(conversations,
                             ConversationDoc(req.user_id, req.prompt, answer, clock))
                 ELSE conversations
          /\ http' = GenerateBody(GenerateResult(answer, save_status), req.user_id)
    /\ save_attempts' = save_attempts + 1
    /\ g_pc' = "done"
    /\ UNCHANGED loopVars
    /\ UNCHANGED <<store_up, req, seen_up, store_op, stored_before>>
    /\ UNCHANGED outsideGenerate

\* the MongoDB server becomes unreachable, or reachable again. The store is
\* read when the request arrives and when the exchange is saved; a change
\* between the two is taken just before the save.
StoreFlips ==
    /\ g_pc = "invoke"
    /\ pc = "returned"
    /\ store_up' = ~store_up
    /\ seen_up' = (seen_up \/ ~store_up)
    /\ UNCHANGED loopVars
    /\ UNCHANGED <<mongo_client, db, conversations, g_pc, req, http, store_op,
                   save_attempts, stored_before>>
    /\ UNCHANGED outsideGenerate

\* ------------------------------------------------------ the /generate route
\* Documents earlier exchanges may have left in the collection
StoredDocs == [user_id : Users, message : Inputs, response : Answers]

\* Collections of at most MaxStored documents, stamped in insertion order
StoredCollections ==
    UNION {{[k \in 1..n |-> [user_id |-> c[k].user_id, message |-> c[k].message,
                             response |-> c[k].response, timestamp |-> k]] :
              c \in [1..n -> StoredDocs]} : n \in 0..MaxStored}

\* One /generate request, in a process that earlier requests may have left
\* with a memoized handle (mongodb.py:24, 48) and with stored exchanges.
\* Here the model requests plain tool turns only.
InitGenerate ==
    /\ InitExecutor
    /\ InitNoChat
    /\ store_up \in BOOLEAN
    /\ mongo_client \in {Unset, "MongoClient"}
    /\ db \in {Unset, "chatbot_db"}
    /\ db # Unset => mongo_client # Unset
    /\ conversations \in StoredCollections
    /\ g_pc = "idle"
    /\ req = NoRequest
    /\ http = NoHttp
    /\ seen_up = FALSE
    /\ save_attempts = 0
    /\ stored_before = <<>>
    /\ extras_left = 0
    /\ InitNoMemoryOps
    /\ InitNoPreferences
    /\ clock = Len(conversations) + 1

NextGenerate ==
    \/ GenerateBegin
    \/ LLMAnswers
    \/ LLMRequestsTools
    \/ LLMRaises
    \/ ToolStep
    \/ MaxIterationsReached
    \/ GenerateFails
    \/ GenerateReturns
    \/ StoreFlips

SpecGenerate == InitGenerate /\ [][NextGenerate]_vars

\* =========================================== claims on the /generate route
\* C5: when a completion call of the request failed, no further completion
\* call was made and the body /generate answers with does not report
\* success.
C5_FailureReported ==
    (g_pc = "done" /\ output.kind = "exception")
        => /\ llm_calls = Cardinality(AiTurns) + 1
           /\ http.status # "success"

\* the store was unreachable from the arrival of the request to its answer
StoreDownThroughout == ~seen_up /\ ~store_up

\* C6: when the store was unreachable during the whole request and invoke
\* returned, the body carries invoke's answer with status "success",
\* saved_to_memory false and a save_error.
C6_AnswerWithoutStore ==
    (g_pc = "done" /\ StoreDownThroughout /\ output.kind = "output")
        => /\ http.kind = "json"
           /\ http.response = output.value
           /\ http.user_id = req.user_id
           /\ http.status = "success"
           /\ http.saved_to_memory = FALSE
           /\ http.save_error # None
           /\ Len(http.save_error) > 0

\* C16: when the loop returned an answer, generate_response entered its
\* save block exactly once (and never otherwise), whether or not the history
\* query was made; the body carries the loop's answer whatever the save's
\* outcome, which only saved_to_memory and save_error tell.
C16_OneSaveAttempt ==
    /\ (g_pc = "done" /\ output.kind = "output")
          => /\ save_attempts = 1
             /\ http.response = output.value
             /\ http.saved_to_memory = (http.save_error = None)
    /\ (g_pc # "done" \/ output.kind # "output") => save_attempts = 0

\* the iteration-cap fallback returned, its save failed, no history query made
C16_Witness ==
    /\ g_pc = "done"
    /\ output = MaxIterationsOutput
    /\ save_attempts = 1
    /\ ~store_op.ran
    /\ ~http.saved_to_memory
    /\ http.response = MaxIterationsMessage

\* C21: the record generate_response persisted carries the request's
\* user_id, the caller's prompt as it arrived (not the input handed to
\* invoke) and the answer text of the body returned to the caller; the
\* records stored before are left as they were.
C21_RecordMatchesExchange ==
    (g_pc = "done" /\ http.saved_to_memory)
          => /\ Len(conversations) = Len(stored_before) + 1
             /\ SubSeq(conversations, 1, Len(stored_before)) = stored_before
             /\ conversations[Len(conversations)].user_id = req.user_id
             /\ conversations[Len(conversations)].user_id = http.user_id
             /\ conversations[Len(conversations)].message = req.prompt
             /\ conversations[Len(conversations)].response = http.response

\* an exchange was saved whose input to invoke carried context of an earlier
\* exchange
C21_Witness ==
    /\ g_pc = "done"
    /\ http.saved_to_memory
    /\ messages[1].content # system_prompt \o <<"\n\nUser: ">> \o req.prompt
    /\ conversations[Len(conversations)].message = req.prompt
    /\ Len(stored_before) >= 1

\* the store down throughout, with the handle memoized by an earlier failure
C6_Witness ==
    /\ g_pc = "done"
    /\ StoreDownThroughout
    /\ output.kind = "output"
    /\ output.value = <<"answer A">>
    /\ http.saved_to_memory = FALSE
    /\ db # Unset

\* ------------------------------------- the memory tools and /memory/history
\* A text longer than the excerpt of tools.py:127-128, one token a character
LongText == [k \in 1..(ExcerptLen + 1) |-> "x"]

\* message and response of the exchanges the memory operations store
SavedPairs == {<<<<"hi">>, <<"hello">>>>,
               <<LongText, <<"hello">>>>,
               <<<<"hi">>, LongText>>,
               <<<<"I got an error">>, <<"hello">>>>}

\* limit values of the history queries
Limits == 1..(MaxSaved + 1)

\* tools.py:87-112 db_save_conversation: the collection afterwards and the
\* text returned
db_save_conversation(docs, user_id, message, resp, now, g, up) ==
    IF g.raised
      THEN [docs |-> docs, text |-> <<"Not saved: ">> \o ConnectionErrorText]
    ELSE IF ~up
      THEN [docs |-> docs, text |-> <<"Not saved: ">> \o DriverErrorText]
    ELSE [docs |-> Append(docs, ConversationDoc(user_id, message, resp, now)),
          text |-> <<"Saved">>]

\* main.py:148-163 the body of GET /memory/history, given what
\* db_get_history returned; json.loads of a text that is no JSON raises,
\* which line 164 turns into status 500
get_conversation_history(h, user_id) ==
    IF h.kind = "raised"
      THEN [kind |-> "HTTPException", status_code |-> 500]
    ELSE IF h.kind = "text"
      THEN IF h.text = <<"No history">> \/ TextHasError(h.text)
             THEN [kind |-> "json", user_id |-> user_id, history |-> <<>>,
                   message |-> h.text]
             ELSE [kind |-> "HTTPException", status_code |-> 500]
    ELSE IF HistoryHasError(h.list)
      THEN [kind |-> "json", user_id |-> user_id, history |-> <<>>,
            message |-> <<"json.dumps(history)">>]
    ELSE [kind |-> "json", user_id |-> user_id, count |-> Len(h.list),
          history |-> h.list]

\* the model invokes the tool db_save_conversation
SaveConversation ==
    \E user_id \in Users, pair \in SavedPairs :
        /\ Len(conversations) < MaxSaved
        /\ LET g == get_conversations_collection(mongo_client, db, store_up)
               r == db_save_conversation(conversations, user_id, pair[1], pair[2],
                                         clock, g, store_up)
           IN /\ mongo_client' = g.mongo_client
              /\ db' = g.db
              /\ conversations' = r.docs
              /\ store_op' = [op |-> "db_save_conversation", user_id |-> user_id,
                              message |-> pair[1], response |-> pair[2],
                              returned |-> r.text]
        /\ UNCHANGED <<store_up, clock>>
        /\ UNCHANGED outsideMemory

\* the model invokes the tool db_get_history
GetHistory ==
    \E user_id \in Users, limit \in Limits :
      \E found \in NewestFirst(conversations, user_id) :
        /\ LET g == get_conversations_collection(mongo_client, db, store_up)
           IN /\ mongo_client' = g.mongo_client
              /\ db' = g.db
              /\ store_op' = [op |-> "db_get_history", user_id |-> user_id,
                              limit |-> limit,
                              returned |-> db_get_history(found, limit, g, store_up)]
        /\ UNCHANGED <<store_up, clock, conversations>>
        /\ UNCHANGED outsideMemory

\* GET /memory/history (main.py:136-165). Line 148 calls the tool object
\* db_get_history like a function: see GenerateBegin for history_runs.
HistoryRoute ==
    \E user_id \in Users, limit \in Limits, history_runs \in BOOLEAN :
      \E found \in NewestFirst(conversations, user_id) :
        /\ LET g == get_conversations_collection(mongo_client, db, store_up)
               h == IF history_runs
                      THEN db_get_history(found, limit, g, store_up)
                      ELSE [kind |-> "raised"]
           IN /\ mongo_client' = IF history_runs THEN g.mongo_client ELSE mongo_client
              /\ db' = IF history_runs THEN g.db ELSE db
              /\ store_op' = [op |-> "get_conversation_history", user_id |-> user_id,
                              limit |-> limit, ran |-> history_runs,
                              returned |-> get_conversation_history(h, user_id)]
        /\ UNCHANGED <<store_up, clock, conversations>>
        /\ UNCHANGED outsideMemory

\* datetime.now() is the local wall clock: it advances, and it is set back
\* when the clock is adjusted or daylight saving time ends
ClockMoves ==
    /\ \E now \in (1..MaxTime) \ {clock} : clock' = now
    /\ UNCHANGED <<store_up, mongo_client, db, conversations, store_op>>
    /\ UNCHANGED outsideMemory

InitMemory ==
    /\ InitExecutor
    /\ InitStore
    /\ InitNoChat
    /\ InitNoMemoryOps
    /\ InitNoPreferences
    /\ extras_left = 0
    /\ store_up \in BOOLEAN
    /\ clock \in 1..MaxTime

NextMemory ==
    \/ SaveConversation
    \/ GetHistory
    \/ HistoryRoute
    \/ ClockMoves

SpecMemory == InitMemory /\ [][NextMemory]_vars

\* ============================================ claims on the memory operations
\* the documents of `user_id`, in insertion order
RECURSIVE RecordsOf(_, _)
RecordsOf(docs, user_id) ==
    IF docs = <<>> THEN <<>>
    ELSE LET rest == RecordsOf(SubSeq(docs, 1, Len(docs) - 1), user_id)
             last == docs[Len(docs)]
         IN IF last.user_id = user_id THEN Append(rest, last) ELSE rest

\* the `n` last elements of `s`, last first
RECURSIVE LastFirst(_, _)
LastFirst(s, n) ==
    IF n = 0 \/ s = <<>> THEN <<>>
    ELSE <<s[Len(s)]>> \o LastFirst(SubSeq(s, 1, Len(s) - 1), n - 1)

Min(a, b) == IF a < b THEN a ELSE b

\* C11: right after db_save_conversation(u, m, r) returned "Saved", every
\* answer the query for the most recent 1 record of u can give is the list
\* of one entry carrying message m and response r.
C11_SavedIsMostRecent ==
    (store_op.op = "db_save_conversation" /\ store_op.returned = <<"Saved">>)
        => \A found \in NewestFirst(conversations, store_op.user_id) :
             LET g == get_conversations_collection(mongo_client, db, store_up)
                 h == db_get_history(found, 1, g, store_up)
             IN /\ h.kind = "json"
                /\ Len(h.list) = 1
                /\ h.list[1].msg = store_op.message
                /\ h.list[1].resp = store_op.response

\* C13: when GET /memory/history ran its query against the reachable store
\* for a user with k stored records, the body lists min(k, limit) entries,
\* the user's last records newest first, message and response cut to
\* ExcerptLen.
C13_HistoryListsRecent ==
    (store_op.op = "get_conversation_history" /\ store_op.ran /\ store_up)
        => LET mine == RecordsOf(conversations, store_op.user_id)
               want == LastFirst(mine, Min(Len(mine), store_op.limit))
               body == store_op.returned
           IN /\ body.kind = "json"
              /\ Len(body.history) = Len(want)
              /\ \A k \in 1..Len(want) :
                    /\ body.history[k].msg = Excerpt(want[k].message)
                    /\ body.history[k].resp = Excerpt(want[k].response)
                    /\ Len(body.history[k].msg) <= ExcerptLen
                    /\ Len(body.history[k].resp) <= ExcerptLen

\* ------------------------------------------ the context of /generate
\* message and response of the exchanges stored before the request
ContextPairs == {<<<<"hello">>, <<"answer A">>>>,
                 <<<<"I got an error">>, <<"answer B">>>>}

\* Collections of at most MaxHistory documents, stamped in insertion order
ContextCollections ==
    UNION {{[k \in 1..n |-> ConversationDoc(c[k][1], c[k][2][1], c[k][2][2], k)] :
              c \in [1..n -> Users \X ContextPairs]} : n \in 0..MaxHistory}

\* One /generate request with the store reachable, the model answering
\* without tools.
InitContext ==
    /\ InitExecutor
    /\ InitNoChat
    /\ InitNoMemoryOps
    /\ InitNoPreferences
    /\ store_up = TRUE
    /\ mongo_client = Unset
    /\ db = Unset
    /\ conversations \in ContextCollections
    /\ clock = Len(conversations) + 1
    /\ g_pc = "idle"
    /\ req = NoRequest
    /\ http = NoHttp
    /\ seen_up = FALSE
    /\ save_attempts = 0
    /\ stored_before = <<>>
    /\ extras_left = 0

NextContext ==
    \/ GenerateBegin
    \/ LLMAnswers
    \/ LLMRaises
    \/ GenerateFails
    \/ GenerateReturns

SpecContext == InitContext /\ [][NextContext]_vars

\* ======================================= claims on the context of /generate
\* User/Assistant pairs of the records `recent` (newest first), oldest first
RECURSIVE Pairs(_)
Pairs(recent) ==
    IF recent = <<>> THEN <<>>
    ELSE Pairs(Tail(recent))
         \o <<"User: ">> \o Excerpt(Head(recent).message) \o <<"\n">>
         \o <<"Assistant: ">> \o Excerpt(Head(recent).response) \o <<"\n">>

\* C15: while the loop runs for a request of a user with k >= 1 stored
\* records, the store reachable and the history query made, the input
\* handed to the loop is the min(k, 3) most recent records of that user as
\* User/Assistant pairs (of the excerpts), oldest first, followed by the
\* current prompt.
C15_ContextInjected ==
    LET mine == RecordsOf(conversations, req.user_id)
        recent == LastFirst(mine, Min(Len(mine), ContextLimit))
    IN (g_pc = "invoke" /\ store_up /\ store_op.ran /\ Len(mine) >= 1)
          => messages[1].content =
                system_prompt \o <<"\n\nUser: ">>
                \o <<"\n\nPrevious conversation context:\n">> \o Pairs(recent)
                \o <<"\n\nCurrent question: ">> \o req.prompt

\* ------------------------------- /generate with the memory tools in the loop
\* Arguments the model may hand to db_save_conversation
SaveInputs == {[user_id |-> u, message |-> <<"hello">>, response |-> <<"answer A">>] :
                  u \in Users}

\* agent.py:90-94: the llm answers with a turn requesting db_save_conversation
LLMRequestsSave ==
    \E input \in SaveInputs, args \in ArgKinds :
        /\ extras_left >= 1
        /\ LLMReturns(AIMessage(<<>>,
               <<[name |-> "db_save_conversation", args |-> args,
                  id |-> CallId(iteration + 1, 1), input |-> input]>>))
        /\ extras_left' = extras_left - 1

\* agent.py:96-115 and tools.py:87-112: one pass of the for loop at a request
\* for db_save_conversation; with arguments matching the schema the tool's
\* body runs
ToolStepSave ==
    /\ pc = "tools"
    /\ tc_idx <= Len(response.tool_calls)
    /\ CurrentToolCall.name = "db_save_conversation"
    /\ LET tool_call == CurrentToolCall
           g == get_conversations_collection(mongo_client, db, store_up)
           r == db_save_conversation(conversations, tool_call.input.user_id,
                                     tool_call.input.message, tool_call.input.response,
                                     clock, g, store_up)
       IN /\ tools_run' = Append(tools_run, tool_call.id)
          /\ IF tool_call.args = "valid"
               THEN /\ messages' = Append(messages, ToolMessage(r.text, tool_call.id))
                    /\ mongo_client' = g.mongo_client
                    /\ db' = g.db
                    /\ conversations' = r.docs
               ELSE /\ messages' = messages \o ToolStepMessages(tool_call)
                    /\ UNCHANGED <<mongo_client, db, conversations>>
    /\ tc_idx' = tc_idx + 1
    /\ pc' = IF tc_idx = Len(response.tool_calls) THEN "loop" ELSE "tools"
    /\ UNCHANGED <<iteration, response, output, llm_calls, extras_left>>
    /\ UNCHANGED <<store_up, g_pc, req, http, seen_up, save_attempts, stored_before,
                   store_op>>
    /\ UNCHANGED outsideGenerate

\* One /generate request with a reachable store; the model may request
\* db_save_conversation MaxExtras times, which stays below max_iterations
InitExchange ==
    /\ InitExecutor
    /\ InitNoChat
    /\ InitNoMemoryOps
    /\ InitNoPreferences
    /\ store_up = TRUE
    /\ mongo_client = Unset
    /\ db = Unset
    /\ conversations \in StoredCollections
    /\ clock = Len(conversations) + 1
    /\ g_pc = "idle"
    /\ req = NoRequest
    /\ http = NoHttp
    /\ seen_up = FALSE
    /\ save_attempts = 0
    /\ stored_before = <<>>
    /\ extras_left = MaxExtras

NextExchange ==
    \/ GenerateBegin
    \/ LLMAnswers
    \/ LLMRequestsSave
    \/ LLMRaises
    \/ ToolStepSave
    \/ GenerateFails
    \/ GenerateReturns

SpecExchange == InitExchange /\ [][NextExchange]_vars

\* ============================= claims on /generate with the memory tools
\* C18: when a /generate exchange completed with the store reachable, the
\* collection holds exactly one record more than when the request arrived,
\* whatever tools the loop ran, and the records it held then are unchanged.
C18_OneRecordPerExchange ==
    (g_pc = "done" /\ output.kind = "output" /\ store_up)
          => /\ Len(conversations) = Len(stored_before) + 1
             /\ SubSeq(conversations, 1, Len(stored_before)) = stored_before

\* ------------------------------ mongodb.py get_mongo_client, step by step
\* The handles MongoClient(...) returns, in the order of construction
Handles == <<"MongoClient", "MongoClient 2", "MongoClient 3", "MongoClient 4",
             "MongoClient 5", "MongoClient 6">>

\* a thread calls get_mongo_client
CallGetMongoClient(t) ==
    /\ caller[t].pc \in {"idle", "done"}
    /\ calls_left > 0
    /\ calls_left' = calls_left - 1
    /\ caller' = [caller EXCEPT ![t] = [pc |-> "test", got |-> Unset, down |-> ~store_up]]
    /\ UNCHANGED <<store_up, mongo_client, constructed, verified, was_down>>
    /\ UNCHANGED outsideConnection

\* mongodb.py:24 if _mongo_client is None
TestMemo(t) ==
    /\ caller[t].pc = "test"
    /\ caller' = [caller EXCEPT ![t].pc =
                     IF mongo_client = Unset THEN "construct" ELSE "return"]
    /\ UNCHANGED <<store_up, mongo_client, calls_left, constructed, verified, was_down>>
    /\ UNCHANGED outsideConnection

\* mongodb.py:26-31 _mongo_client = MongoClient(...)
Construct(t) ==
    /\ caller[t].pc = "construct"
    /\ mongo_client' = Handles[constructed + 1]
    /\ constructed' = constructed + 1
    /\ caller' = [caller EXCEPT ![t].pc = "server_info"]
    /\ UNCHANGED <<store_up, calls_left, verified, was_down>>
    /\ UNCHANGED outsideConnection

\* mongodb.py:33-39 _mongo_client.server_info(), ConnectionError on failure
ServerInfo(t) ==
    /\ caller[t].pc = "server_info"
    /\ IF store_up
         THEN /\ verified' = verified \cup {mongo_client}
              /\ caller' = [caller EXCEPT ![t].pc = "return"]
         ELSE /\ verified' = verified
              /\ caller' = [caller EXCEPT ![t].pc = "done", ![t].got = "ConnectionError"]
    /\ UNCHANGED <<store_up, mongo_client, calls_left, constructed, was_down>>
    /\ UNCHANGED outsideConnection

\* mongodb.py:40 return _mongo_client
ReturnClient(t) ==
    /\ caller[t].pc = "return"
    /\ caller' = [caller EXCEPT ![t].pc = "done", ![t].got = mongo_client]
    /\ UNCHANGED <<store_up, mongo_client, calls_left, constructed, verified, was_down>>
    /\ UNCHANGED outsideConnection

GetMongoClient ==
    \E t \in 1..MaxCallers :
        \/ CallGetMongoClient(t)
        \/ TestMemo(t)
        \/ Construct(t)
        \/ ServerInfo(t)
        \/ ReturnClient(t)

\* the MongoDB server becomes unreachable, or reachable again; `down` of a
\* call tells that the store was unreachable during the whole call
StoreChanges ==
    /\ store_up' = ~store_up
    /\ was_down' = TRUE
    /\ caller' = [t \in 1..MaxCallers |-> [caller[t] EXCEPT !.down = FALSE]]
    /\ UNCHANGED <<mongo_client, calls_left, constructed, verified>>
    /\ UNCHANGED outsideConnection

InitConnection ==
    /\ InitExecutor
    /\ InitStore
    /\ InitNoChat
    /\ InitNoPreferences
    /\ store_op = NoStoreOp
    /\ calc = NoCall
    /\ api = NoCall
    /\ extras_left = 0
    /\ clock = 1
    /\ store_up \in BOOLEAN
    /\ caller = [t \in 1..MaxCallers |-> NoCaller]
    /\ calls_left = MaxCalls
    /\ constructed = 0
    /\ verified = {}
    /\ was_down = ~store_up

NextConnection ==
    \/ GetMongoClient
    \/ StoreChanges

SpecConnection == InitConnection /\ [][NextConnection]_vars

\* =============================================== claims on get_mongo_client
\* no thread is inside get_mongo_client
NoCallUnderWay == \A t \in 1..MaxCallers : caller[t].pc \in {"idle", "done"}

\* C17: a call of get_mongo_client during which the store was unreachable
\* throughout has raised ConnectionError; a handle a call returned had its
\* server_info() answered, and so has the handle that is memoized when no
\* call is under way.
C17_UnreachableRaises ==
    /\ \A t \in 1..MaxCallers :
          caller[t].pc = "done"
             => /\ caller[t].down => caller[t].got = "ConnectionError"
                /\ caller[t].got # "ConnectionError" => caller[t].got \in verified
    /\ (NoCallUnderWay /\ mongo_client # Unset) => mongo_client \in verified

\* C19: as long as the store has been reachable, MongoClient(...) was
\* constructed at most once, exactly once when a call has returned, and all
\* calls that returned got the same handle.
C19_ConstructedOnce ==
    ~was_down
       => /\ constructed <= 1
          /\ \A t \in 1..MaxCallers :
                caller[t].pc = "done"
                   => /\ constructed = 1
                      /\ caller[t].got = Handles[1]

\* -------------------------------------------------- the preference upserts
\* preferences arguments of db_save_preference
Payloads == {<<"P1">>, <<"P2">>}

\* mongodb.py:58-61 get_preferences_collection
get_preferences_collection(mc, d, up) == get_database(mc, d, up)

\* position of the first document of `user_id`, or 0
FirstOf(docs, user_id) ==
    IF \E k \in 1..Len(docs) : docs[k].user_id = user_id
      THEN CHOOSE k \in 1..Len(docs) :
             /\ docs[k].user_id = user_id
             /\ \A j \in 1..(k - 1) : docs[j].user_id # user_id
      ELSE 0

\* tools.py:66-84 db_init invoked as a tool: the unique index of line 80 is
\* created when the lines before it did not raise (has_default: line 72)
\* and no two documents share a user_id
DbInit ==
    \E has_default \in BOOLEAN :
        /\ LET s1 == db_init(mongo_client, db, store_up, has_default)
               reached == store_up /\ has_default
               distinct == \A j, k \in 1..Len(preferences) :
                              j # k => preferences[j].user_id # preferences[k].user_id
           IN /\ mongo_client' = s1.mongo_client
              /\ db' = s1.db
              /\ pref_index' = (pref_index \/ (reached /\ distinct))
        /\ UNCHANGED <<store_up, preferences, upsert, upserts_left, last_saved>>
        /\ UNCHANGED outsidePreferences

\* tools.py:143-154 db_save_preference up to the server's evaluation of the
\* filter {"user_id": user_id} of update_one; when the collection cannot be
\* reached the call returns "Not saved: ..." (lines 157-158)
UpsertBegin(t) ==
    \E user_id \in Users, payload \in Payloads :
        /\ upsert[t].pc = "idle"
        /\ upserts_left > 0
        /\ upserts_left' = upserts_left - 1
        /\ LET g == get_preferences_collection(mongo_client, db, store_up)
           IN /\ mongo_client' = g.mongo_client
              /\ db' = g.db
              /\ upsert' = [upsert EXCEPT ![t] =
                    IF g.raised \/ ~store_up
                      THEN NoUpsert
                      ELSE [pc |-> "matched", user_id |-> user_id,
                            preferences |-> payload,
                            matched |-> FirstOf(preferences, user_id)]]
        /\ UNCHANGED <<store_up, preferences, pref_index, last_saved>>
        /\ UNCHANGED outsidePreferences

\* the unique index rejects the insert of a second document of user_id
DuplicateKey(docs, index, user_id) == index /\ FirstOf(docs, user_id) # 0

\* tools.py:150-156 the server applies the update: $set on the matched
\* document, or the insert of upsert=True. On a duplicate key the server
\* either applies the update to the document now there (retried) or the
\* driver raises, caught at line 157.
UpsertWrite(t) ==
    \E retried \in BOOLEAN :
        /\ upsert[t].pc = "matched"
        /\ LET u == upsert[t].user_id
               doc == [user_id |-> u, preferences |-> upsert[t].preferences]
               k == IF upsert[t].matched # 0 THEN upsert[t].matched
                    ELSE FirstOf(preferences, u)
               duplicate == upsert[t].matched = 0 /\ DuplicateKey(preferences, pref_index, u)
               updates == upsert[t].matched # 0 \/ (duplicate /\ retried)
               saved == ~duplicate \/ retried
           IN /\ preferences' =
                    IF updates THEN [preferences EXCEPT ![k] = doc]
                    ELSE IF duplicate THEN preferences
                    ELSE Append(preferences, doc)
              /\ last_saved' = IF saved THEN [last_saved EXCEPT ![u] = doc.preferences]
                               ELSE last_saved
        /\ upsert' = [upsert EXCEPT ![t] = NoUpsert]
        /\ UNCHANGED <<store_up, mongo_client, db, pref_index, upserts_left>>
        /\ UNCHANGED outsidePreferences

SavePreference == \E t \in 1..MaxRequests : UpsertBegin(t) \/ UpsertWrite(t)

InitPreferences ==
    /\ InitExecutor
    /\ InitStore
    /\ InitNoChat
    /\ InitNoMemoryOps
    /\ extras_left = 0
    /\ clock = 1
    /\ store_up \in BOOLEAN
    /\ preferences = <<>>
    /\ pref_index = FALSE
    /\ upsert = [t \in 1..MaxRequests |-> NoUpsert]
    /\ upserts_left = MaxUpserts
    /\ last_saved = [u \in Users |-> None]

NextPreferences ==
    \/ DbInit
    \/ SavePreference

SpecPreferences == InitPreferences /\ [][NextPreferences]_vars

\* =========================================== claims on the preference upserts
\* C12: the preferences collection holds at most one document per user_id,
\* and when no upsert is under way the document of a user carries the payload
\* of the user's last upsert that returned "Saved".
C12_OnePreferencePerUser ==
    \A u \in Users :
        LET mine == {k \in 1..Len(preferences) : preferences[k].user_id = u} IN
        /\ Cardinality(mine) <= 1
        /\ ((\A t \in 1..MaxRequests : upsert[t].pc = "idle") /\ last_saved[u] # None)
              => \E k \in mine : preferences[k].preferences = last_saved[u]

\* ----------------------------------------------------- tools.py calculate
\* tools.py:214 allowed = set("0123456789+-*/.() ")
allowed == {"0", "1", "2", "3", "4", "5", "6", "7", "8", "9",
            "+", "-", "*", "/", ".", "(", ")", " "}

\* Characters of the arguments: two digits, the operators, the parentheses,
\* the space and a letter. Literals with "." are not among the arguments.
ExprChars == {"0", "2", "+", "-", "*", "/", "(", ")", " ", "a"}

Expressions == UNION {[1..n -> ExprChars] : n \in 0..MaxExprLen}

Digits == {"0", "1", "2", "3", "4", "5", "6", "7", "8", "9"}

DigitChar == <<"0", "1", "2", "3", "4", "5", "6", "7", "8", "9">>

DigitValue(c) == CHOOSE v \in 0..9 : DigitChar[v + 1] = c

Abs(x) == IF x < 0 THEN -x ELSE x

RECURSIVE GCD(_, _)
GCD(a, b) == IF b = 0 THEN a ELSE GCD(b, a % b)

RECURSIVE IntPow(_, _)
IntPow(b, e) == IF e = 0 THEN 1 ELSE b * IntPow(b, e - 1)

\* Python values: an int or a float (f), exactly n/d; the empty tuple; a
\* float that is no quotient of integers; an exception
Num(n, d, f) ==
    LET g == GCD(Abs(n), Abs(d))
        sign == IF d < 0 THEN -1 ELSE 1
    IN [k |-> "num", n |-> (sign * n) \div g, d |-> Abs(d) \div g, f |-> f]

EmptyTuple == [k |-> "tuple", n |-> 0, d |-> 1, f |-> FALSE]
Inexact == [k |-> "inexact", n |-> 0, d |-> 1, f |-> TRUE]
Err == [k |-> "err", n |-> 0, d |-> 1, f |-> FALSE]

IsInt(a) == a.k = "num" /\ ~a.f

\* the binary operators of Python on these values
BinOp(op, a, b) ==
    IF a.k = "err" \/ b.k = "err" THEN Err
    ELSE IF a.k = "tuple" \/ b.k = "tuple"
      THEN IF op = "+" /\ a.k = "tuple" /\ b.k = "tuple" THEN EmptyTuple
           ELSE IF op = "*" /\ (IsInt(a) \/ IsInt(b)) THEN EmptyTuple
           ELSE Err
    ELSE IF op \in {"/", "//"} /\ b.k = "num" /\ b.n = 0 THEN Err
    ELSE IF a.k = "inexact" \/ b.k = "inexact" THEN Inexact
    ELSE IF op = "+" THEN Num(a.n * b.d + b.n * a.d, a.d * b.d, a.f \/ b.f)
    ELSE IF op = "-" THEN Num(a.n * b.d - b.n * a.d, a.d * b.d, a.f \/ b.f)
    ELSE IF op = "*" THEN Num(a.n * b.n, a.d * b.d, a.f \/ b.f)
    ELSE IF op = "/" THEN Num(a.n * b.d, a.d * b.n, TRUE)
    ELSE IF op = "//"
      THEN LET q == Num(a.n * b.d, a.d * b.n, FALSE)
           IN Num(q.n \div q.d, 1, a.f \/ b.f)
    ELSE IF b.d # 1 THEN Inexact
    ELSE IF b.n >= 0 THEN Num(IntPow(a.n, b.n), IntPow(a.d, b.n), a.f \/ b.f)
    ELSE IF a.n = 0 THEN Err
    ELSE Num(IntPow(a.d, -b.n), IntPow(a.n, -b.n), TRUE)

UnaryOp(op, a) ==
    IF a.k = "err" THEN Err
    ELSE IF a.k = "inexact" THEN Inexact
    ELSE IF a.k # "num" THEN Err
    ELSE IF op = "-" THEN Num(-a.n, a.d, a.f)
    ELSE a

\* the tokens of Python: numbers, operators, parentheses; spaces separate
RECURSIVE DigitRun(_)
DigitRun(s) == IF s # <<>> /\ Head(s) \in Digits THEN 1 + DigitRun(Tail(s)) ELSE 0

RECURSIVE Tokenize(_)
Tokenize(s) ==
    IF s = <<>> THEN <<>>
    ELSE LET c == Head(s) IN
         IF c = " " THEN Tokenize(Tail(s))
         ELSE IF c \in Digits
           THEN LET n == DigitRun(s)
                IN <<[t |-> "num", digits |-> SubSeq(s, 1, n)]>>
                   \o Tokenize(SubSeq(s, n + 1, Len(s)))
         ELSE IF c \in {"*", "/"} /\ Len(s) >= 2 /\ s[2] = c
           THEN <<[t |-> "op", op |-> IF c = "*" THEN "**" ELSE "//"]>>
                \o Tokenize(SubSeq(s, 3, Len(s)))
         ELSE IF c \in {"+", "-", "*", "/"}
           THEN <<[t |-> "op", op |-> c]>> \o Tokenize(Tail(s))
         ELSE IF c \in {"(", ")"}
           THEN <<[t |-> c]>> \o Tokenize(Tail(s))
         ELSE <<[t |-> "other"]>> \o Tokenize(Tail(s))

RECURSIVE NumberValue(_)
NumberValue(digits) ==
    IF digits = <<>> THEN 0
    ELSE 10 * NumberValue(SubSeq(digits, 1, Len(digits) - 1))
         + DigitValue(digits[Len(digits)])

\* a decimal integer literal has no leading zero, unless it is all zeros
ValidLiteral(digits) == digits[1] # "0" \/ \A k \in 1..Len(digits) : digits[k] = "0"

\* Python's expression grammar on the tokens: the value and the tokens left,
\* or Fail for a SyntaxError and for an exception of the evaluation
Fail == [v |-> Err, rest |-> <<>>]

\* F of the value of v, v evaluated once
With(v, F(_)) == CHOOSE r \in {F(x) : x \in {v}} : TRUE

Result(v, rest) == IF v.k = "err" THEN Fail ELSE [v |-> v, rest |-> rest]

IsOp(ts, ops) == ts # <<>> /\ Head(ts).t = "op" /\ Head(ts).op \in ops

RECURSIVE ParseExpr(_), ExprRest(_, _), ParseTerm(_), TermRest(_, _),
          ParseFactor(_), ParsePower(_), ParseAtom(_)

\* atom: NUMBER | '(' [expr] ')'
ParseAtom(ts) ==
    IF ts = <<>> THEN Fail
    ELSE IF Head(ts).t = "num"
      THEN IF ValidLiteral(Head(ts).digits)
             THEN [v |-> Num(NumberValue(Head(ts).digits), 1, FALSE), rest |-> Tail(ts)]
             ELSE Fail
    ELSE IF Head(ts).t = "("
      THEN IF Len(ts) >= 2 /\ ts[2].t = ")"
             THEN [v |-> EmptyTuple, rest |-> SubSeq(ts, 3, Len(ts))]
             ELSE With(ParseExpr(Tail(ts)), LAMBDA r :
                    IF r.v.k # "err" /\ r.rest # <<>> /\ Head(r.rest).t = ")"
                      THEN [v |-> r.v, rest |-> Tail(r.rest)]
                      ELSE Fail)
    ELSE Fail

\* power: atom ['**' factor]; an atom followed by '(' is a call of a number
\* or of a tuple, a TypeError
ParsePower(ts) ==
    With(ParseAtom(ts), LAMBDA a :
        IF a.v.k = "err" THEN Fail
        ELSE IF a.rest # <<>> /\ Head(a.rest).t = "(" THEN Fail
        ELSE IF IsOp(a.rest, {"**"})
          THEN With(ParseFactor(Tail(a.rest)), LAMBDA f :
                 Result(BinOp("**", a.v, f.v), f.rest))
        ELSE a)

\* factor: ('+'|'-') factor | power
ParseFactor(ts) ==
    IF IsOp(ts, {"+", "-"})
      THEN With(ParseFactor(Tail(ts)), LAMBDA f :
             Result(UnaryOp(Head(ts).op, f.v), f.rest))
      ELSE ParsePower(ts)

\* term: factor (('*'|'/'|'//') factor)*
TermRest(acc, ts) ==
    IF IsOp(ts, {"*", "/", "//"})
      THEN With(ParseFactor(Tail(ts)), LAMBDA f :
             With(BinOp(Head(ts).op, acc, f.v), LAMBDA v :
               IF v.k = "err" THEN Fail ELSE TermRest(v, f.rest)))
      ELSE [v |-> acc, rest |-> ts]

ParseTerm(ts) ==
    With(ParseFactor(ts), LAMBDA f :
        IF f.v.k = "err" THEN Fail ELSE TermRest(f.v, f.rest))

\* expr: term (('+'|'-') term)*
ExprRest(acc, ts) ==
    IF IsOp(ts, {"+", "-"})
      THEN With(ParseTerm(Tail(ts)), LAMBDA t :
             With(BinOp(Head(ts).op, acc, t.v), LAMBDA v :
               IF v.k = "err" THEN Fail ELSE ExprRest(v, t.rest)))
      ELSE [v |-> acc, rest |-> ts]

ParseExpr(ts) ==
    With(ParseTerm(ts), LAMBDA t :
        IF t.v.k = "err" THEN Fail ELSE ExprRest(t.v, t.rest))

\* tools.py:217 eval(expression): the value, or Err when eval raises
eval(expression) ==
    With(ParseExpr(Tokenize(expression)), LAMBDA r :
        IF r.v.k = "err" \/ r.rest # <<>> THEN Err ELSE r.v)

RECURSIVE NatStr(_)
NatStr(n) ==
    IF n < 10 THEN <<DigitChar[n + 1]>>
    ELSE NatStr(n \div 10) \o <<DigitChar[(n % 10) + 1]>>

IntStr(n) == IF n < 0 THEN <<"-">> \o NatStr(-n) ELSE NatStr(n)

RECURSIVE Without(_, _)
Without(d, p) == IF d % p = 0 THEN Without(d \div p, p) ELSE d

\* n/d has a finite decimal expansion
Terminating(d) == Without(Without(d, 2), 5) = 1

\* the digits after the point of r/d, r < d, by long division
RECURSIVE LongDivision(_, _)
LongDivision(r, d) ==
    IF r = 0 THEN <<>>
    ELSE <<DigitChar[((r * 10) \div d) + 1]>> \o LongDivision((r * 10) % d, d)

\* tools.py:219 str(result), one token a character. The repr of a float
\* without finite expansion is one token naming the quotient; the sign of a
\* float zero ("0/-2" gives "-0.0") is not kept.
str(a) ==
    IF a.k = "tuple" THEN <<"(", ")">>
    ELSE IF a.k = "inexact" THEN <<"repr of an inexact float">>
    ELSE IF ~a.f THEN IntStr(a.n)
    ELSE IF ~Terminating(a.d)
      THEN <<"repr of ">> \o IntStr(a.n) \o <<"/">> \o IntStr(a.d)
    ELSE LET whole == Abs(a.n) \div a.d
             digits == LongDivision(Abs(a.n) % a.d, a.d)
         IN (IF a.n < 0 THEN <<"-">> ELSE <<>>) \o NatStr(whole) \o <<".">>
            \o (IF digits = <<>> THEN <<"0">> ELSE digits)

\* tools.py:213-221 without the try of line 213
calculateUncaught(expression) ==
    IF ~(\A k \in 1..Len(expression) : expression[k] \in allowed)
      THEN [raised |-> FALSE, evaluated |-> FALSE, text |-> <<"Invalid expression">>]
      ELSE With(eval(expression), LAMBDA result :
             IF result.k = "err"
               THEN [raised |-> TRUE, evaluated |-> TRUE, text |-> None]
               ELSE [raised |-> FALSE, evaluated |-> TRUE, text |-> str(result)])

\* tools.py:210-221 calculate: the text returned, whether eval was called,
\* whether the call raised
calculate(expression) ==
    IF ~(\A k \in 1..Len(expression) : expression[k] \in allowed)
      THEN [raised |-> FALSE, evaluated |-> FALSE, text |-> <<"Invalid expression">>]
      ELSE With(eval(expression), LAMBDA result :
             IF result.k = "err"
               THEN [raised |-> FALSE, evaluated |-> TRUE,
                     text |-> <<"Calc error: ", "str(e)">>]
               ELSE [raised |-> FALSE, evaluated |-> TRUE, text |-> str(result)])

\* the tool calculate is invoked and returns
Calculate ==
    /\ calc.pc = "called"
    /\ calc' = [pc |-> "returned", expression |-> calc.expression,
                returned |-> calculate(calc.expression)]
    /\ UNCHANGED api
    /\ UNCHANGED outsideTools

InitCalculate ==
    /\ InitExecutor
    /\ InitStore
    /\ InitNoChat
    /\ InitNoPreferences
    /\ InitNoConnectionCalls
    /\ store_op = NoStoreOp
    /\ api = NoCall
    /\ extras_left = 0
    /\ clock = 1
    /\ store_up = TRUE
    /\ calc \in {[pc |-> "called", expression |-> e] : e \in Expressions}

NextCalculate == Calculate

SpecCalculate == InitCalculate /\ [][NextCalculate]_vars

\* ======================================================= claims on calculate
\* the characters of an arithmetic expression
ArithmeticChars == Digits \cup {"+", "-", "*", "/", ".", "(", ")", " "}

\* Arithmetic expressions of exactly L characters with their values <<n, d>>
\* in lowest terms, generated from the grammar
\*   sum := term | sum + term | sum - term
\*   term := factor | term * factor | term / factor    (no division by zero)
\*   factor := numeral | ( sum ) | - factor
Rat(n, d) ==
    LET g == GCD(Abs(n), Abs(d)) IN
    IF d < 0 THEN <<(-n) \div g, (-d) \div g>> ELSE <<n \div g, d \div g>>

RatOp(op, a, b) ==
    IF op = "+" THEN Rat(a[1] * b[2] + b[1] * a[2], a[2] * b[2])
    ELSE IF op = "-" THEN Rat(a[1] * b[2] - b[1] * a[2], a[2] * b[2])
    ELSE IF op = "*" THEN Rat(a[1] * b[1], a[2] * b[2])
    ELSE Rat(a[1] * b[2], a[2] * b[1])

RECURSIVE Denoted(_)
Denoted(numeral) ==
    IF numeral = <<>> THEN 0
    ELSE Denoted(SubSeq(numeral, 1, Len(numeral) - 1)) * 10
         + DigitValue(numeral[Len(numeral)])

Numerals(L) ==
    IF L <= 0 THEN {}
    ELSE {x \in [1..L -> ExprChars \cap Digits] : L = 1 \/ x[1] # "0"}

RECURSIVE Sums(_), Terms(_), Factors(_)

Factors(L) ==
    IF L <= 0 THEN {}
    ELSE {[s |-> x, v |-> <<Denoted(x), 1>>] : x \in Numerals(L)}
         \cup {[s |-> <<"(">> \o e.s \o <<")">>, v |-> e.v] : e \in Sums(L - 2)}
         \cup {[s |-> <<"-">> \o f.s, v |-> Rat(-f.v[1], f.v[2])] : f \in Factors(L - 1)}

Terms(L) ==
    Factors(L)
    \cup UNION {{[s |-> t.s \o <<c[2]>> \o f.s, v |-> RatOp(c[2], t.v, f.v)] :
                    t \in Terms(c[1]),
                    f \in {g \in Factors(L - 1 - c[1]) : c[2] = "/" => g.v[1] # 0}} :
                c \in (1..(L - 2)) \X {"*", "/"}}

Sums(L) ==
    Terms(L)
    \cup UNION {{[s |-> e.s \o <<c[2]>> \o t.s, v |-> RatOp(c[2], e.v, t.v)] :
                    e \in Sums(c[1]), t \in Terms(L - 1 - c[1])} :
                c \in (1..(L - 2)) \X {"+", "-"}}

WellFormed == UNION {Sums(L) : L \in 1..MaxExprLen}

\* the rational a decimal numeral denotes: [-]digits[.digits]
DecimalValue(text) ==
    LET neg == text # <<>> /\ Head(text) = "-"
        body == IF neg THEN Tail(text) ELSE text
        points == {k \in 1..Len(body) : body[k] = "."}
        point == IF points = {} THEN Len(body) + 1 ELSE CHOOSE k \in points : TRUE
        whole == SubSeq(body, 1, point - 1)
        frac == SubSeq(body, point + 1, Len(body))
        ok == /\ Cardinality(points) <= 1
              /\ whole # <<>>
              /\ points # {} => frac # <<>>
              /\ \A k \in 1..Len(body) : body[k] \in Digits \cup {"."}
        sign == IF neg THEN -1 ELSE 1
    IN IF ok
         THEN [ok |-> TRUE,
               v |-> Rat(sign * (Denoted(whole) * IntPow(10, Len(frac)) + Denoted(frac)),
                         IntPow(10, Len(frac)))]
         ELSE [ok |-> FALSE, v |-> <<0, 1>>]

JsonText(n) == [k \in 1..n |-> "x"]

\* What requests.get and response.json() of lines 168-170 give: the JSON
\* text of the body, or an exception
Responses ==
    {[raised |-> FALSE, result |-> JsonText(n)] :
        n \in (MaxChars - BodySpread)..(MaxChars + BodySpread)}
    \cup {[raised |-> TRUE, result |-> <<>>]}

\* tools.py:166-174 api_get: the text returned
api_get(resp) ==
    IF resp.raised
      THEN <<"API error: ", "str(e)">>
      ELSE IF Len(resp.result) > MaxChars
             THEN SubSeq(resp.result, 1, MaxChars) \o <<".", ".", ".">>
             ELSE resp.result

\* the tool api_get is invoked and returns
ApiGet ==
    /\ api.pc = "called"
    /\ api' = [pc |-> "returned", response |-> api.response,
               returned |-> api_get(api.response)]
    /\ UNCHANGED calc
    /\ UNCHANGED outsideTools

InitApi ==
    /\ InitExecutor
    /\ InitStore
    /\ InitNoChat
    /\ InitNoPreferences
    /\ InitNoConnectionCalls
    /\ store_op = NoStoreOp
    /\ calc = NoCall
    /\ extras_left = 0
    /\ clock = 1
    /\ store_up = TRUE
    /\ api \in {[pc |-> "called", response |-> resp] : resp \in Responses}

NextApi == ApiGet

SpecApi == InitApi /\ [][NextApi]_vars

\* ========================================================= claims on api_get
\* C20: the text api_get returns for a response it could read has at most
\* MaxChars characters.
C20_AtMostMaxChars ==
    (api.pc = "returned" /\ ~api.response.raised) => Len(api.returned) <= MaxChars

\* ------------------------------- streamingChatbot/backend/agent/agent.py
\* Text fragments a chunk of the completion stream may carry
Tokens == {"Hel", "lo"}

\* agent.py:47, 50, 53 the server-sent-event lines
TokenLine(token) == <<"data: ", token, "\n\n">>
DoneLine == <<"data: ", "[DONE]", "\n\n">>
ErrorLine(e) == <<"data: ", "[ERROR] ", e, "\n\n">>

StreamError == "stream broken"

\* backend/main.py:18-33 and agent.py:13-29: the route hands chatbot() to
\* the streaming response, whose first step runs the function up to the
\* completion request of line 18; the request is accepted
ChatCreate ==
    /\ c_pc = "idle"
    /\ c_pc' = "streaming"
    /\ UNCHANGED <<emitted, chunks_read, connected, detected_at>>
    /\ UNCHANGED outsideChat

\* agent.py:18-29: the completion request raises; line 18 is outside the
\* try of line 31, so the exception leaves the generator
ChatCreateRaises ==
    /\ c_pc = "idle"
    /\ c_pc' = "raised"
    /\ UNCHANGED <<emitted, chunks_read, connected, detected_at>>
    /\ UNCHANGED outsideChat

\* agent.py:38-47: the stream delivers a chunk; has_content: the chunk has
\* choices and a non-empty delta.content
ChatChunk ==
    \E has_content \in BOOLEAN, token \in Tokens :
        /\ c_pc = "streaming"
        /\ chunks_read < MaxChunks
        /\ chunks_read' = chunks_read + 1
        /\ IF ~connected
             THEN \* lines 39-41 break, then line 50
                  /\ detected_at' = Len(emitted)
                  /\ emitted' = Append(emitted, DoneLine)
                  /\ c_pc' = "ended"
             ELSE /\ detected_at' = detected_at
                  /\ emitted' = IF has_content
                                  THEN Append(emitted, TokenLine(token))
                                  ELSE emitted
                  /\ c_pc' = "streaming"
        /\ UNCHANGED connected
        /\ UNCHANGED outsideChat

\* agent.py:38, 50: the stream is exhausted
ChatStreamEnds ==
    /\ c_pc = "streaming"
    /\ emitted' = Append(emitted, DoneLine)
    /\ c_pc' = "ended"
    /\ UNCHANGED <<chunks_read, connected, detected_at>>
    /\ UNCHANGED outsideChat

\* agent.py:38, 52-53: reading the next chunk raises
ChatStreamRaises ==
    /\ c_pc = "streaming"
    /\ emitted' = Append(emitted, ErrorLine(StreamError))
    /\ c_pc' = "failed"
    /\ UNCHANGED <<chunks_read, connected, detected_at>>
    /\ UNCHANGED outsideChat

\* the client goes away
ClientDisconnects ==
    /\ c_pc \in {"idle", "streaming"}
    /\ connected
    /\ connected' = FALSE
    /\ UNCHANGED <<c_pc, emitted, chunks_read, detected_at>>
    /\ UNCHANGED outsideChat

\* ============================================== claims on the /chat stream
ChatOver == c_pc \in {"ended", "failed", "raised"}
IsTerminalLine(line) == line[2] \in {"[DONE]", "[ERROR] "}
TerminalLines == {k \in 1..Len(emitted) : IsTerminalLine(emitted[k])}

\* C3: once is_disconnected() has answered True, the generator yields no
\* further line, token or terminal, and does not raise.
C3_NoLineAfterDisconnect ==
    detected_at >= 0 => (Len(emitted) = detected_at /\ c_pc # "raised")

\* C4: a stream whose client stays connected ends with exactly one terminal
\* line, the last one: [DONE] when the completion stream was delivered to
\* its end, [ERROR] when the completion service failed, at the request or
\* at a later chunk.
C4_OneTerminalEvent ==
    (ChatOver /\ connected)
        => /\ Cardinality(TerminalLines) = 1
           /\ TerminalLines = {Len(emitted)}
           /\ c_pc = "ended" => emitted[Len(emitted)] = DoneLine
           /\ c_pc \in {"failed", "raised"} => emitted[Len(emitted)][2] = "[ERROR] "

InitChat ==
    /\ InitExecutor
    /\ InitStore
    /\ store_up = TRUE
    /\ extras_left = 0
    /\ InitNoChat
    /\ InitNoMemoryOps
    /\ InitNoPreferences
    /\ clock = 1

NextChat ==
    \/ ChatCreate
    \/ ChatCreateRaises
    \/ ChatChunk
    \/ ChatStreamEnds
    \/ ChatStreamRaises
    \/ ClientDisconnects

SpecChat == InitChat /\ [][NextChat]_vars

====
